---- MODULE Spec2Model ----
(***************************************************************************)
(* The four heap-allocated array containers of the repository              *)
(* (int/Array.h, generic/Array.h, int/StrictArray.h, generic/StrictArray.h)*)
(* and the Result envelope (utils/Result.h), as a state machine over a     *)
(* small heap.  Every C function is an operator from the heap and its      *)
(* arguments to the SET of outcomes the call can have: one outcome where   *)
(* the C is defined, several where it is undefined (null dereference,      *)
(* copy outside an object).  malloc's return value and the contents of     *)
(* uninitialised storage are inputs chosen by the environment.             *)
(***************************************************************************)
EXTENDS Integers, Sequences, FiniteSets, TLC

\* ---------------------------------------------------------------- bounds
MaxCap == 2          \* capacity arguments range over 0..MaxCap
MaxTypeSize == 2     \* the size of the caller's element type, in bytes
MaxAllocs == 2       \* blocks the heap has room for
SizeBits == 6        \* width of size_t in the model: arithmetic is mod 2^SizeBits

\* ------------------------------------------------------ platform constants
SizeofSizeT == 1     \* sizeof(size_t), in bytes of the model
SizeofInt == 2       \* sizeof(int), in bytes of the model

NULL == 0
U == -1              \* a cell whose value is indeterminate (never written)
Wild == -2           \* a pointer value that refers to no object of the model

Kinds == {"Array_int", "Array", "StrictArray_int", "StrictArray"}
IsStrict(k) == k \in {"StrictArray_int", "StrictArray"}
IsGeneric(k) == k \in {"Array", "StrictArray"}

Addrs == 1..MaxAllocs
HVars == {"a", "b"}

SizeT(x) == x % (2 ^ SizeBits)

\* sizeof(struct T): the size_t fields before the flexible array member
HeaderSize(k) ==
  CASE k = "Array_int" -> 1 * SizeofSizeT
    [] k = "Array" -> 2 * SizeofSizeT
    [] k = "StrictArray_int" -> 2 * SizeofSizeT
    [] k = "StrictArray" -> 3 * SizeofSizeT

\* bytes per cell of data[]: int data[] or char data[]
CellSize(k) == IF IsGeneric(k) THEN 1 ELSE SizeofInt

\* ------------------------------------------------------------------ heap
\* One cell of the heap per address.  size, capacity, type_size and data are
\* the struct's members; state, nfree, bytes, esz, cap0 and ts_set are
\* bookkeeping the C does not have: whether the block is allocated, how often
\* it was passed to free since malloc last returned it, the size malloc was
\* asked for, the element size and capacity the caller constructed it with,
\* and whether type_size was ever assigned.
NoObject ==
  [state |-> "unalloc", kind |-> "", size |-> 0, capacity |-> 0,
   type_size |-> 0, data |-> <<>>, nfree |-> 0, bytes |-> 0, esz |-> 0,
   cap0 |-> 0, ts_set |-> FALSE]

EmptyHeap == [a \in Addrs |-> NoObject]

Live(heap, a) == a \in Addrs /\ heap[a].state = "live"

\* the address malloc hands out next: a block that is not in use (freed
\* blocks are handed out again); NULL when every block is in use
Fresh(heap) ==
  IF \E a \in Addrs : heap[a].state # "live"
  THEN CHOOSE a \in Addrs :
         /\ heap[a].state # "live"
         /\ \A b \in Addrs : heap[b].state # "live" => a <= b
  ELSE NULL

\* the cells of data[] a block of `bytes` bytes has room for
PayloadCells(k, bytes) ==
  IF bytes < HeaderSize(k) THEN 0 ELSE (bytes - HeaderSize(k)) \div CellSize(k)

Blank(n) == [i \in 1..n |-> U]

\* memcpy(dst + off, src, n) in cells.  Cells read past the end of src are
\* indeterminate; cells written past the end of dst are not part of dst.
memcpy(dst, off, src, n) ==
  [k \in 1..Len(dst) |->
     IF k > off /\ k <= off + n
     THEN (IF k - off <= Len(src) THEN src[k - off] ELSE U)
     ELSE dst[k]]

\* (a freed block keeps nothing but the count of its frees)
\* the copy leaves one of the two objects: undefined behaviour
Overrun(dst, off, src, n) == off + n > Len(dst) \/ n > Len(src)

free(heap, a) ==
  IF a \in Addrs
  THEN [heap EXCEPT ![a] = [NoObject EXCEPT !.state = "freed",
                                            !.nfree = heap[a].nfree + 1]]
  ELSE heap

\* --------------------------------------------------------------- pointers
NullPtr == [obj |-> NULL, off |-> 0]
WildPtr == [obj |-> Wild, off |-> 0]
ElemPtr(a, o) == [obj |-> a, off |-> o]

\* a caller's array argument: a null pointer, or `cells`
NullData == [null |-> TRUE, cells |-> <<>>]
Data(cs) == [null |-> FALSE, cells |-> cs]

\* ----------------------------------------------------------------- Result
NoResult == [ok |-> "none", error_msg |-> "", data |-> NULL]
Ok(a) == [ok |-> "NO_ERROR", error_msg |-> "", data |-> a]
Err(st, msg) == [ok |-> st, error_msg |-> msg, data |-> Wild]

\* --------------------------------------------------------------- outcomes
\* What one call did: the heap after it, the status / pointer / Result it
\* returned, the value left in the caller's slot (free_T, get_data), and
\* what it did on the way (copied: the cells a constructor's memcpy copied).
Outcome(heap) ==
  [heap |-> heap, ret |-> "void", ptr |-> NullPtr, res |-> NoResult,
   slot |-> NULL, crashed |-> FALSE, derefNull |-> FALSE, stray |-> FALSE,
   mallocs |-> 0, frees |-> 0, copied |-> 0]

Returns(heap, st) == [Outcome(heap) EXCEPT !.ret = st]
ReturnsPtr(heap, p) == [Outcome(heap) EXCEPT !.ret = "ptr", !.ptr = p]
Crash(heap) == [Outcome(heap) EXCEPT !.ret = "crash", !.crashed = TRUE]

\* a call that executed undefined behaviour after reaching outcome o from
\* heap `pre`: it either carries on (the part of the copy inside the
\* object done, the rest landing outside the model) or the process dies
Undefined(o, pre) ==
  {[o EXCEPT !.stray = TRUE],
   [Crash(pre) EXCEPT !.stray = TRUE, !.mallocs = o.mallocs]}

Fails(heap, st, msg, nmalloc) ==
  [Outcome(heap) EXCEPT !.ret = "Result", !.res = Err(st, msg),
                        !.mallocs = nmalloc]

\* n: the cells of data[] the call's memcpy was asked to copy
Succeeds(heap, p, n) ==
  [Outcome(heap) EXCEPT !.ret = "Result", !.res = Ok(p), !.mallocs = 1,
                        !.copied = n]

\* the block malloc returned, before any member is assigned: the members the
\* struct of kind k has are indeterminate
Block(k, bytes) ==
  [NoObject EXCEPT !.state = "live", !.kind = k, !.bytes = bytes,
                   !.capacity = U,
                   !.size = IF IsStrict(k) THEN U ELSE 0,
                   !.type_size = IF IsGeneric(k) THEN U ELSE 0,
                   !.data = Blank(PayloadCells(k, bytes))]

\* ------------------------------------------------------------ int/Array.h
\* new_Array_int without `if (!data) size = 0`
new_Array_int_KeepsCount(heap, p, data, size, capacity) ==
  LET bytes == SizeT(HeaderSize("Array_int") + SizeT(capacity * SizeofInt))
      n == SizeT(size * SizeofInt) \div SizeofInt
      blk == Block("Array_int", bytes)
      obj == [blk EXCEPT !.capacity = capacity, !.cap0 = capacity, !.esz = 1,
                         !.data = memcpy(blk.data, 0, data.cells, n)]
  IN IF capacity < size
     THEN {Fails(heap, "INVALID_SIZE",
                 "SizeError: size is negative or capacity is less than size", 0)}
     ELSE IF p = NULL
     THEN {Fails(heap, "HEAP_FAILURE",
                 "AllocationError: Not enough memory in the heap", 1)}
     ELSE IF Overrun(blk.data, 0, data.cells, n)
     THEN Undefined(Succeeds([heap EXCEPT ![p] = obj], p, n), heap)
     ELSE {Succeeds([heap EXCEPT ![p] = obj], p, n)}

\* p is what malloc returns if it is called: NULL or a fresh address.  If the
\* size passed to malloc wrapped around to less than the header, the member
\* assignments themselves leave the block: undefined behaviour.
new_Array_int(heap, p, data, size, capacity) ==
  LET sz == IF data.null THEN 0 ELSE size
      bytes == SizeT(HeaderSize("Array_int") + SizeT(capacity * SizeofInt))
      n == SizeT(sz * SizeofInt) \div SizeofInt
      blk == Block("Array_int", bytes)
      obj == [blk EXCEPT !.capacity = capacity, !.cap0 = capacity, !.esz = 1,
                         !.data = memcpy(blk.data, 0, data.cells, n)]
  IN IF capacity < sz
     THEN {Fails(heap, "INVALID_SIZE",
                 "SizeError: size is negative or capacity is less than size", 0)}
     ELSE IF p = NULL
     THEN {Fails(heap, "HEAP_FAILURE",
                 "AllocationError: Not enough memory in the heap", 1)}
     ELSE IF bytes < HeaderSize("Array_int")
             \/ Overrun(blk.data, 0, data.cells, n)
     THEN Undefined(Succeeds([heap EXCEPT ![p] = obj], p, n), heap)
     ELSE {Succeeds([heap EXCEPT ![p] = obj], p, n)}

from_Array_int(heap, p, from) ==
  IF from = NULL
  THEN {Fails(heap, "SEGFAULT", "ValueError: cannot access a null pointer", 0)}
  ELSE new_Array_int(heap, p, Data(heap[from].data), heap[from].capacity,
                     heap[from].capacity)

\* arr is the caller's Array_int**: arrNull says it is a null pointer,
\* otherwise h is the handle it points to
free_Array_int(heap, arrNull, h) ==
  IF arrNull \/ h = NULL
  THEN {[Outcome(heap) EXCEPT !.slot = h]}
  ELSE {[Outcome(free(heap, h)) EXCEPT !.slot = NULL, !.frees = 1]}

get_item_Array_int(heap, from, index) ==
  IF from = NULL THEN {ReturnsPtr(heap, NullPtr)}
  ELSE IF index >= heap[from].capacity THEN {ReturnsPtr(heap, NullPtr)}
  ELSE {ReturnsPtr(heap, ElemPtr(from, index))}

\* -------------------------------------------------------- generic/Array.h
new_Array(heap, p, data, size, capacity, type_size) ==
  LET sz == IF data.null THEN 0 ELSE size
      bytes == SizeT(HeaderSize("Array") + SizeT(capacity * type_size))
      n == SizeT(sz * type_size)
      blk == Block("Array", bytes)
      obj == [blk EXCEPT !.capacity = capacity, !.cap0 = capacity,
                         !.type_size = type_size, !.ts_set = TRUE,
                         !.esz = type_size,
                         !.data = memcpy(blk.data, 0, data.cells, n)]
  IN IF capacity < sz
     THEN {Fails(heap, "INVALID_SIZE",
                 "SizeError: size is negative or capacity is less than size", 0)}
     ELSE IF type_size <= 0
     THEN {Fails(heap, "INVALID_SIZE",
                 "SizeError: Type cannot have less than 1 byte", 0)}
     ELSE IF p = NULL
     THEN {Fails(heap, "HEAP_FAILURE",
                 "AllocationError: Not enough memory in the heap", 1)}
     ELSE IF bytes < HeaderSize("Array")
             \/ Overrun(blk.data, 0, data.cells, n)
     THEN Undefined(Succeeds([heap EXCEPT ![p] = obj], p, n), heap)
     ELSE {Succeeds([heap EXCEPT ![p] = obj], p, n)}

\* from_Array passing a null data pointer to new_Array
from_Array_NoData(heap, p, from) ==
  IF from = NULL
  THEN {Fails(heap, "SEGFAULT", "ValueError: cannot access a null pointer", 0)}
  ELSE new_Array(heap, p, NullData, heap[from].capacity,
                 heap[from].capacity, heap[from].type_size)

from_Array(heap, p, from) ==
  IF from = NULL
  THEN {Fails(heap, "SEGFAULT", "ValueError: cannot access a null pointer", 0)}
  ELSE new_Array(heap, p, Data(heap[from].data), heap[from].capacity,
                 heap[from].capacity, heap[from].type_size)

free_Array(heap, arrNull, h) ==
  IF arrNull \/ h = NULL
  THEN {[Outcome(heap) EXCEPT !.slot = h]}
  ELSE {[Outcome(free(heap, h)) EXCEPT !.slot = NULL, !.frees = 1]}


\* get_item_Array with `index > from->capacity` for `index >= from->capacity`
get_item_Array_OffByOne(heap, from, index) ==
  IF from = NULL THEN {ReturnsPtr(heap, NullPtr)}
  ELSE IF index > heap[from].capacity THEN {ReturnsPtr(heap, NullPtr)}
  ELSE {ReturnsPtr(heap, ElemPtr(from, SizeT(index * heap[from].type_size)))}

get_item_Array(heap, from, index) ==
  IF from = NULL THEN {ReturnsPtr(heap, NullPtr)}
  ELSE IF index >= heap[from].capacity THEN {ReturnsPtr(heap, NullPtr)}
  ELSE {ReturnsPtr(heap, ElemPtr(from, SizeT(index * heap[from].type_size)))}

\* ------------------------------------------------------ int/StrictArray.h
\* new_StrictArray_int without the test cap < size
new_StrictArray_int_NoCapTest(heap, p, data, size, cap) ==
  LET sz == IF data.null THEN 0 ELSE size
      bytes == SizeT(HeaderSize("StrictArray_int") + SizeT(SizeofInt * cap))
      n == SizeT(sz * SizeofInt) \div SizeofInt
      blk == Block("StrictArray_int", bytes)
      obj == [blk EXCEPT !.size = sz, !.capacity = cap, !.cap0 = cap,
                         !.esz = 1,
                         !.data = memcpy(blk.data, 0, data.cells, n)]
  IN IF p = NULL
     THEN {Fails(heap, "HEAP_FAILURE",
                 "AllocationError: Not enough memory in the heap", 1)}
     ELSE IF Overrun(blk.data, 0, data.cells, n)
     THEN Undefined(Succeeds([heap EXCEPT ![p] = obj], p, n), heap)
     ELSE {Succeeds([heap EXCEPT ![p] = obj], p, n)}

new_StrictArray_int(heap, p, data, size, cap) ==
  LET sz == IF data.null THEN 0 ELSE size
      bytes == SizeT(HeaderSize("StrictArray_int") + SizeT(SizeofInt * cap))
      n == SizeT(sz * SizeofInt) \div SizeofInt
      blk == Block("StrictArray_int", bytes)
      obj == [blk EXCEPT !.size = sz, !.capacity = cap, !.cap0 = cap,
                         !.esz = 1,
                         !.data = memcpy(blk.data, 0, data.cells, n)]
  IN IF sz < 0 \/ cap < sz
     THEN {Fails(heap, "INVALID_SIZE",
                 "SizeError: size is negative or capacity is less than size", 0)}
     ELSE IF p = NULL
     THEN {Fails(heap, "HEAP_FAILURE",
                 "AllocationError: Not enough memory in the heap", 1)}
     ELSE IF bytes < HeaderSize("StrictArray_int")
             \/ Overrun(blk.data, 0, data.cells, n)
     THEN Undefined(Succeeds([heap EXCEPT ![p] = obj], p, n), heap)
     ELSE {Succeeds([heap EXCEPT ![p] = obj], p, n)}

\* copies from->capacity ints, whatever from->size is
from_StrictArray_int(heap, p, from) ==
  LET src == heap[from]
      bytes == SizeT(HeaderSize("StrictArray_int")
                     + SizeT(src.capacity * SizeofInt))
      n == SizeT(src.capacity * SizeofInt) \div SizeofInt
      blk == Block("StrictArray_int", bytes)
      obj == [blk EXCEPT !.capacity = src.capacity, !.size = src.size,
                         !.cap0 = src.capacity, !.esz = 1,
                         !.data = memcpy(blk.data, 0, src.data, n)]
  IN IF from = NULL
     THEN {Fails(heap, "SEGFAULT", "ValueError: cannot access a null pointer", 0)}
     ELSE IF p = NULL
     THEN {Fails(heap, "HEAP_FAILURE",
                 "AllocationError: Not enough memory in the heap", 1)}
     ELSE IF bytes < HeaderSize("StrictArray_int")
             \/ Overrun(blk.data, 0, src.data, n)
     THEN Undefined(Succeeds([heap EXCEPT ![p] = obj], p, n), heap)
     ELSE {Succeeds([heap EXCEPT ![p] = obj], p, n)}


\* free_StrictArray_int without `*arr = NULL`
free_StrictArray_int_KeepsHandle(heap, arrNull, h) ==
  IF arrNull
  THEN {[Outcome(heap) EXCEPT !.slot = h]}
  ELSE {[Outcome(free(heap, h)) EXCEPT
           !.slot = h, !.frees = IF h = NULL THEN 0 ELSE 1]}

\* free(*arr) runs whenever arr is not null: free(NULL) does nothing
free_StrictArray_int(heap, arrNull, h) ==
  IF arrNull
  THEN {[Outcome(heap) EXCEPT !.slot = h]}
  ELSE {[Outcome(free(heap, h)) EXCEPT
           !.slot = NULL, !.frees = IF h = NULL THEN 0 ELSE 1]}

push_back_StrictArray_int(heap, arr, data) ==
  IF arr = NULL THEN {Returns(heap, "SEGFAULT")}
  ELSE LET size == heap[arr].size
           cap == heap[arr].capacity
           o == Returns([heap EXCEPT
                           ![arr].data = memcpy(@, size, <<data>>, 1),
                           ![arr].size = SizeT(@ + 1)], "NO_ERROR")
       IN IF size = cap THEN {Returns(heap, "NO_SPACE")}
          ELSE IF Overrun(heap[arr].data, size, <<data>>, 1)
          THEN Undefined(o, heap)
          ELSE {o}

pop_back_StrictArray_int(heap, arr) ==
  IF arr = NULL THEN {Outcome(heap)}
  ELSE IF heap[arr].size # 0
  THEN {Outcome([heap EXCEPT ![arr].size = @ - 1])}
  ELSE {Outcome(heap)}

clear_StrictArray_int(heap, arr) ==
  IF arr = NULL THEN {Outcome(heap)}
  ELSE {Outcome([heap EXCEPT ![arr].size = 0])}

\* arr->size is read without a null check: with arr null the read is
\* undefined (the process dies, or the test goes either way)
get_item_StrictArray_int(heap, arr, index) ==
  IF arr = NULL
  THEN {[Crash(heap) EXCEPT !.derefNull = TRUE],
        [ReturnsPtr(heap, NullPtr) EXCEPT !.derefNull = TRUE],
        [ReturnsPtr(heap, WildPtr) EXCEPT !.derefNull = TRUE]}
  ELSE IF index < 0 \/ index >= heap[arr].size
  THEN {ReturnsPtr(heap, NullPtr)}
  ELSE {ReturnsPtr(heap, ElemPtr(arr, index))}

\* -------------------------------------------------- generic/StrictArray.h
\* new_StrictArray without the memcpy of the initial elements
new_StrictArray_NoCopy(heap, p, data, type_size, size, cap) ==
  LET sz == IF data.null THEN 0 ELSE size
      bytes == SizeT(HeaderSize("StrictArray") + SizeT(type_size * cap))
      blk == Block("StrictArray", bytes)
      obj == [blk EXCEPT !.size = sz, !.capacity = cap, !.cap0 = cap,
                         !.type_size = type_size, !.ts_set = TRUE,
                         !.esz = type_size]
  IN IF sz < 0 \/ cap < sz
     THEN {Fails(heap, "INVALID_SIZE",
                 "SizeError: Size is negative or capacity is less than size", 0)}
     ELSE IF type_size <= 0
     THEN {Fails(heap, "INVALID_SIZE",
                 "SizeError: Type cannot have less than 1 byte", 0)}
     ELSE IF p = NULL
     THEN {Fails(heap, "HEAP_FAILURE",
                 "AllocationError: Not enough memory in the heap", 1)}
     ELSE {Succeeds([heap EXCEPT ![p] = obj], p, 0)}

new_StrictArray(heap, p, data, type_size, size, cap) ==
  LET sz == IF data.null THEN 0 ELSE size
      bytes == SizeT(HeaderSize("StrictArray") + SizeT(type_size * cap))
      n == SizeT(sz * type_size)
      blk == Block("StrictArray", bytes)
      obj == [blk EXCEPT !.size = sz, !.capacity = cap, !.cap0 = cap,
                         !.type_size = type_size, !.ts_set = TRUE,
                         !.esz = type_size,
                         !.data = memcpy(blk.data, 0, data.cells, n)]
  IN IF sz < 0 \/ cap < sz
     THEN {Fails(heap, "INVALID_SIZE",
                 "SizeError: Size is negative or capacity is less than size", 0)}
     ELSE IF type_size <= 0
     THEN {Fails(heap, "INVALID_SIZE",
                 "SizeError: Type cannot have less than 1 byte", 0)}
     ELSE IF p = NULL
     THEN {Fails(heap, "HEAP_FAILURE",
                 "AllocationError: Not enough memory in the heap", 1)}
     ELSE IF bytes < HeaderSize("StrictArray")
             \/ Overrun(blk.data, 0, data.cells, n)
     THEN Undefined(Succeeds([heap EXCEPT ![p] = obj], p, n), heap)
     ELSE {Succeeds([heap EXCEPT ![p] = obj], p, n)}

\* result->type_size is never assigned: it keeps `junk`, whatever the
\* block held when malloc returned it
from_StrictArray(heap, p, from, junk) ==
  LET src == heap[from]
      bytes == SizeT(HeaderSize("StrictArray")
                     + SizeT(src.capacity * src.type_size))
      n == SizeT(src.size * src.type_size)
      blk == Block("StrictArray", bytes)
      obj == [blk EXCEPT !.capacity = src.capacity, !.size = src.size,
                         !.cap0 = src.capacity, !.esz = src.esz,
                         !.type_size = junk,
                         !.data = memcpy(blk.data, 0, src.data, n)]
  IN IF from = NULL
     THEN {Fails(heap, "SEGFAULT", "ValueError: cannot access a null pointer", 0)}
     ELSE IF p = NULL
     THEN {Fails(heap, "HEAP_FAILURE",
                 "AllocationError: Not enough memory in the heap", 1)}
     ELSE IF bytes < HeaderSize("StrictArray")
             \/ Overrun(blk.data, 0, src.data, n)
     THEN Undefined(Succeeds([heap EXCEPT ![p] = obj], p, n), heap)
     ELSE {Succeeds([heap EXCEPT ![p] = obj], p, n)}

free_StrictArray(heap, arrNull, h) ==
  IF arrNull \/ h = NULL
  THEN {[Outcome(heap) EXCEPT !.slot = h]}
  ELSE {[Outcome(free(heap, h)) EXCEPT !.slot = NULL, !.frees = 1]}


\* push_back_StrictArray without the test for a full container
push_back_StrictArray_NoFullTest(heap, arr, value) ==
  IF arr = NULL
  THEN {[Crash(heap) EXCEPT !.derefNull = TRUE],
        [Returns(heap, "SEGFAULT") EXCEPT !.derefNull = TRUE]}
  ELSE LET size == heap[arr].size
           type_size == heap[arr].type_size
           off == SizeT(type_size * size)
           o == Returns([heap EXCEPT
                           ![arr].data = memcpy(@, off, value, type_size),
                           ![arr].size = SizeT(@ + 1)], "NO_ERROR")
       IN IF Overrun(heap[arr].data, off, value, type_size)
          THEN Undefined(o, heap)
          ELSE {o}

\* arr->size and arr->type_size are read before the null check: with arr
\* null the reads are undefined (the process dies, or the loads are
\* deferred and the check returns SEGFAULT)
push_back_StrictArray(heap, arr, value) ==
  IF arr = NULL
  THEN {[Crash(heap) EXCEPT !.derefNull = TRUE],
        [Returns(heap, "SEGFAULT") EXCEPT !.derefNull = TRUE]}
  ELSE LET size == heap[arr].size
           type_size == heap[arr].type_size
           off == SizeT(type_size * size)
           o == Returns([heap EXCEPT
                           ![arr].data = memcpy(@, off, value, type_size),
                           ![arr].size = SizeT(@ + 1)], "NO_ERROR")
       IN IF size = heap[arr].capacity THEN {Returns(heap, "NO_SPACE")}
          ELSE IF Overrun(heap[arr].data, off, value, type_size)
          THEN Undefined(o, heap)
          ELSE {o}

\* pop_back_StrictArray without the test `if (arr->size)`
pop_back_StrictArray_NoEmptyTest(heap, arr) ==
  IF arr = NULL THEN {Outcome(heap)}
  ELSE {Outcome([heap EXCEPT ![arr].size = SizeT(@ - 1)])}

pop_back_StrictArray(heap, arr) ==
  IF arr = NULL THEN {Outcome(heap)}
  ELSE IF heap[arr].size # 0
  THEN {Outcome([heap EXCEPT ![arr].size = @ - 1])}
  ELSE {Outcome(heap)}

clear_StrictArray(heap, arr) ==
  IF arr = NULL THEN {Outcome(heap)}
  ELSE {Outcome([heap EXCEPT ![arr].size = 0])}

\* the test is `index < 0 && index >= arr->size`; there is no null check,
\* so with arr null the member reads are undefined
get_item(heap, arr, index) ==
  IF arr = NULL
  THEN {[Crash(heap) EXCEPT !.derefNull = TRUE],
        [ReturnsPtr(heap, WildPtr) EXCEPT !.derefNull = TRUE]}
  ELSE IF index < 0 /\ index >= heap[arr].size
  THEN {ReturnsPtr(heap, NullPtr)}
  ELSE {ReturnsPtr(heap, ElemPtr(arr, SizeT(heap[arr].type_size * index)))}

\* ---------------------------------------------------------- utils/Result.h
\* from / to are the caller's Result* and void**; slot is *to before the call.
\* ret is the returned message, "NULL" for a null pointer.
get_data_p(from, fromNull, toNull, slot) ==
  IF fromNull \/ toNull
  THEN {[Outcome(EmptyHeap) EXCEPT
           !.ret = "ValueError: cannot access a null pointer.", !.slot = slot]}
  ELSE IF from.ok # "NO_ERROR"
  THEN {[Outcome(EmptyHeap) EXCEPT !.ret = from.error_msg, !.slot = NULL]}
  ELSE {[Outcome(EmptyHeap) EXCEPT !.ret = "NULL", !.slot = from.data]}

\* the success branch ends without a return statement: the value the caller
\* receives is indeterminate
get_data(from, toNull, slot) ==
  IF toNull THEN {[Outcome(EmptyHeap) EXCEPT !.ret = "NULL", !.slot = slot]}
  ELSE IF from.ok # "NO_ERROR"
  THEN {[Outcome(EmptyHeap) EXCEPT !.ret = from.error_msg, !.slot = slot]}
  ELSE {[Outcome(EmptyHeap) EXCEPT !.ret = r, !.slot = from.data] :
          r \in {"NULL", "indeterminate"}}

\* ------------------------------------------------------------------ state
VARIABLES
  variant,   \* which of the four containers this run uses
  heap,      \* the allocator's blocks
  h,         \* the caller's handle variables
  res,       \* the Result the caller holds and has not unwrapped yet
  last,      \* the call made last: its arguments and what it returned
  dst,       \* the handle variable the caller unwraps res into
  streak,    \* per handle: appends made in a row since the container was empty
  destroyed, \* the handle variables free_T nulled and no call assigned since
  pc         \* "run", or "crashed" once undefined behaviour killed the process

vars == <<variant, heap, h, res, dst, last, streak, destroyed, pc>>

\* ----------------------------------------------------------------- inputs
\* element number v of type_size bytes: its bytes differ from each other and
\* from those of every other element
Elem(v, type_size) == [j \in 1..type_size |-> 10 * v + j]

\* the caller's initial array of `size` elements 1, 2, ..., size
InitInts(size) == [i \in 1..size |-> i]
InitBytes(size, type_size) ==
  [k \in 1..(size * type_size) |->
     10 * (((k - 1) \div type_size) + 1) + (((k - 1) % type_size) + 1)]

AppendVals == {MaxCap + 1}
Indices == 0..MaxCap
Counts == 0..(MaxCap + 1)
Caps == 0..MaxCap
\* type_size arguments: the caller's element size, and the invalid 0
TypeSizes == {0, MaxTypeSize}
\* values an unassigned type_size member may hold: below, at and above the
\* caller's element size
JunkSizes == (MaxTypeSize - 1)..(MaxTypeSize + 1)

NoCall ==
  [op |-> "none", var |-> "", h |-> NULL, index |-> 0, value |-> 0,
   dataNull |-> FALSE, count |-> 0, cap |-> 0, tsz |-> 0,
   ret |-> "void", ptr |-> NullPtr, derefNull |-> FALSE, stray |-> FALSE,
   mallocs |-> 0, frees |-> 0, malloc |-> "none",
   fromNull |-> FALSE, toNull |-> FALSE, copied |-> 0]

\* what malloc answered in a call that made outcome o
Answer(o, p) ==
  IF o.mallocs = 0 THEN "none" ELSE IF p = NULL THEN "null" ELSE "ok"

\* the call record of outcome o of operation op
Call(op, o) ==
  [NoCall EXCEPT !.op = op, !.ret = o.ret, !.ptr = o.ptr,
                 !.derefNull = o.derefNull, !.stray = o.stray,
                 !.mallocs = o.mallocs, !.frees = o.frees,
                 !.copied = o.copied]

After(o) == IF o.crashed THEN "crashed" ELSE "run"

\* the streak of handle x once a call other than append has used it
Restart(hp, hd, x) ==
  [streak EXCEPT ![x] = IF Live(hp, hd[x]) /\ hp[hd[x]].size = 0
                        THEN 0 ELSE -1]

\* the caller declares `T *a;` with or without `= NULL`: without, a holds an
\* indeterminate value until a call assigns it
Init ==
  /\ variant \in Kinds
  /\ heap = EmptyHeap
  /\ h \in {[x \in HVars |-> IF x = "a" THEN v ELSE NULL] : v \in {NULL, Wild}}
  /\ res = NoResult
  /\ dst = "a"
  /\ last = NoCall
  /\ streak = [x \in HVars |-> -1]
  /\ destroyed = {}
  /\ pc = "run"

\* the handle variables the caller passes to the container functions: those
\* that hold null or a handle, not one that was never assigned
Assigned == {x \in HVars : h[x] # Wild}

\* ------------------------------------------------- dispatch on the variant
InitData(k, dataNull, size, tsz) ==
  IF dataNull THEN NullData
  ELSE IF IsGeneric(k) THEN Data(InitBytes(size, tsz))
  ELSE Data(InitInts(size))

New(k, hp, p, data, size, cap, tsz) ==
  CASE k = "Array_int" -> new_Array_int(hp, p, data, size, cap)
    [] k = "Array" -> new_Array(hp, p, data, size, cap, tsz)
    [] k = "StrictArray_int" -> new_StrictArray_int(hp, p, data, size, cap)
    [] k = "StrictArray" -> new_StrictArray(hp, p, data, tsz, size, cap)

From(k, hp, p, from, junk) ==
  CASE k = "Array_int" -> from_Array_int(hp, p, from)
    [] k = "Array" -> from_Array(hp, p, from)
    [] k = "StrictArray_int" -> from_StrictArray_int(hp, p, from)
    [] k = "StrictArray" -> from_StrictArray(hp, p, from, junk)

Free(k, hp, arrNull, hd) ==
  CASE k = "Array_int" -> free_Array_int(hp, arrNull, hd)
    [] k = "Array" -> free_Array(hp, arrNull, hd)
    [] k = "StrictArray_int" -> free_StrictArray_int(hp, arrNull, hd)
    [] k = "StrictArray" -> free_StrictArray(hp, arrNull, hd)

GetItem(k, hp, arr, index) ==
  CASE k = "Array_int" -> get_item_Array_int(hp, arr, index)
    [] k = "Array" -> get_item_Array(hp, arr, index)
    [] k = "StrictArray_int" -> get_item_StrictArray_int(hp, arr, index)
    [] k = "StrictArray" -> get_item(hp, arr, index)

\* the caller's element v, as the argument push_back takes: an int, or a
\* pointer to the bytes of an element of the container's element type
PushBack(k, hp, arr, v) ==
  IF k = "StrictArray_int" THEN push_back_StrictArray_int(hp, arr, v)
  ELSE push_back_StrictArray(hp, arr,
         Elem(v, IF arr = NULL THEN 1 ELSE hp[arr].esz))

PopBack(k, hp, arr) ==
  IF k = "StrictArray_int" THEN pop_back_StrictArray_int(hp, arr)
  ELSE pop_back_StrictArray(hp, arr)

ClearAll(k, hp, arr) ==
  IF k = "StrictArray_int" THEN clear_StrictArray_int(hp, arr)
  ELSE clear_StrictArray(hp, arr)

\* ---------------------------------------------------------------- actions
\* The caller unwraps a Result before it makes its next call to a container
\* function (res = NoResult in the guards of those calls).
\* r = new_T(data, size, cap[, type_size]), when the caller holds no container
Construct ==
  /\ pc = "run" /\ res = NoResult /\ Fresh(heap) # NULL
  /\ \A x \in HVars : h[x] \notin Addrs
  /\ dst' = "a"
  /\ \E dataNull \in BOOLEAN, size \in Counts, cap \in Caps,
        tsz \in TypeSizes, p \in {NULL, Fresh(heap)} :
       /\ IsGeneric(variant) \/ tsz = 0
       /\ \E o \in New(variant, heap, p,
                       InitData(variant, dataNull, size, tsz), size, cap, tsz) :
            /\ heap' = o.heap
            /\ res' = o.res
            /\ pc' = After(o)
            /\ last' = [Call("construct", o) EXCEPT
                          !.dataNull = dataNull, !.count = size,
                          !.cap = cap, !.tsz = tsz,
                          !.malloc = Answer(o, p)]
  /\ UNCHANGED <<variant, h, streak, destroyed>>

\* r = from_T(h[x]), when the caller's variable for clones is free
Clone ==
  /\ pc = "run" /\ res = NoResult /\ Fresh(heap) # NULL /\ h["b"] = NULL
  /\ dst' = "b"
  /\ \E x \in Assigned, p \in {NULL, Fresh(heap)}, junk \in JunkSizes :
       /\ variant = "StrictArray" \/ junk = MaxTypeSize
       /\ \E o \in From(variant, heap, p, h[x], junk) :
            /\ heap' = o.heap
            /\ res' = o.res
            /\ pc' = After(o)
            /\ last' = [Call("clone", o) EXCEPT !.var = x, !.h = h[x],
                                                !.malloc = Answer(o, p)]
  /\ UNCHANGED <<variant, h, streak, destroyed>>

\* msg = get_data_p(&r, &h[x]), also with a null first or second argument
UnwrapP ==
  /\ pc = "run" /\ res # NoResult
  /\ \E x \in {dst}, fromNull \in BOOLEAN, toNull \in BOOLEAN :
       \E o \in get_data_p(res, fromNull, toNull, h[x]) :
         /\ h' = [h EXCEPT ![x] = o.slot]
         /\ res' = IF fromNull \/ toNull THEN res ELSE NoResult
         /\ streak' = Restart(heap, h', x)
         /\ destroyed' = IF o.slot \in Addrs THEN destroyed \ {x} ELSE destroyed
         /\ last' = [Call("get_data_p", o) EXCEPT
                       !.var = x, !.h = h[x],
                       !.fromNull = fromNull, !.toNull = toNull]
  /\ UNCHANGED <<variant, heap, dst, pc>>

\* msg = get_data(r, &h[x]), also with a null second argument
Unwrap ==
  /\ pc = "run" /\ res # NoResult
  /\ \E x \in {dst}, toNull \in BOOLEAN :
       \E o \in get_data(res, toNull, h[x]) :
         /\ h' = [h EXCEPT ![x] = o.slot]
         /\ res' = IF toNull THEN res ELSE NoResult
         /\ streak' = Restart(heap, h', x)
         /\ destroyed' = IF o.slot \in Addrs THEN destroyed \ {x} ELSE destroyed
         /\ last' = [Call("get_data", o) EXCEPT
                       !.var = x, !.h = h[x], !.toNull = toNull]
  /\ UNCHANGED <<variant, heap, dst, pc>>

\* free_T(&h[x]), or free_T(NULL)
Destroy ==
  /\ pc = "run" /\ res = NoResult
  /\ \E x \in Assigned, arrNull \in BOOLEAN :
       \E o \in Free(variant, heap, arrNull, h[x]) :
         /\ heap' = o.heap
         /\ h' = [h EXCEPT ![x] = o.slot]
         /\ pc' = After(o)
         /\ streak' = Restart(heap', h', x)
         /\ destroyed' = IF h[x] \in Addrs /\ o.slot = NULL
                         THEN destroyed \cup {x} ELSE destroyed
         /\ last' = [Call(IF arrNull THEN "destroy_null" ELSE "destroy", o)
                       EXCEPT !.var = x, !.h = h[x]]
  /\ UNCHANGED <<variant, res, dst>>

\* st = push_back_T(h[x], v)
PushBackCall ==
  /\ pc = "run" /\ res = NoResult /\ IsStrict(variant)
  /\ \E x \in Assigned, v \in AppendVals :
       \E o \in PushBack(variant, heap, h[x], v) :
         /\ heap' = o.heap
         /\ pc' = After(o)
         /\ streak' = [streak EXCEPT ![x] =
                         IF h[x] # NULL /\ @ >= 0 /\ @ <= heap[h[x]].capacity
                         THEN @ + 1 ELSE -1]
         /\ last' = [Call("append", o) EXCEPT
                       !.var = x, !.h = h[x], !.value = v]
  /\ UNCHANGED <<variant, h, res, dst, destroyed>>

\* pop_back_T(h[x])
RemoveLast ==
  /\ pc = "run" /\ res = NoResult /\ IsStrict(variant)
  /\ \E x \in Assigned :
       \E o \in PopBack(variant, heap, h[x]) :
         /\ heap' = o.heap
         /\ pc' = After(o)
         /\ streak' = Restart(heap', h, x)
         /\ last' = [Call("remove_last", o) EXCEPT !.var = x, !.h = h[x]]
  /\ UNCHANGED <<variant, h, res, dst, destroyed>>

\* clear_T(h[x])
Clear ==
  /\ pc = "run" /\ res = NoResult /\ IsStrict(variant)
  /\ \E x \in Assigned :
       \E o \in ClearAll(variant, heap, h[x]) :
         /\ heap' = o.heap
         /\ pc' = After(o)
         /\ streak' = Restart(heap', h, x)
         /\ last' = [Call("clear", o) EXCEPT !.var = x, !.h = h[x]]
  /\ UNCHANGED <<variant, h, res, dst, destroyed>>

\* ptr = get_item_T(h[x], index)
Get ==
  /\ pc = "run" /\ res = NoResult
  /\ \E x \in Assigned, index \in Indices :
       \E o \in GetItem(variant, heap, h[x], index) :
         /\ heap' = o.heap
         /\ pc' = After(o)
         /\ last' = [Call("get", o) EXCEPT
                       !.var = x, !.h = h[x], !.index = index]
  /\ UNCHANGED <<variant, h, res, dst, streak, destroyed>>

Next ==
  \/ Construct
  \/ Clone
  \/ UnwrapP
  \/ Unwrap
  \/ Destroy
  \/ PushBackCall
  \/ RemoveLast
  \/ Clear
  \/ Get

Spec == Init /\ [][Next]_vars

\* ------------------------------------------------------------ properties
\* the element a pointer returned by get refers to: the esz cells at its
\* offset, esz being the element size the container was constructed with
ElemAt(hp, ptr) ==
  IF ptr.obj \in Addrs /\ ptr.off + hp[ptr.obj].esz <= Len(hp[ptr.obj].data)
  THEN SubSeq(hp[ptr.obj].data, ptr.off + 1, ptr.off + hp[ptr.obj].esz)
  ELSE <<Wild>>

StrictObjects == {a \in Addrs : Live(heap, a) /\ IsStrict(heap[a].kind)}

C2_GetBoundedBySize ==
  (last.op = "get" /\ IsStrict(variant) /\ last.h # NULL) =>
    /\ last.ret = "ptr"
    /\ last.index >= heap[last.h].size => last.ptr = NullPtr
    /\ last.index < heap[last.h].size =>
         last.ptr = ElemPtr(last.h, last.index * heap[last.h].esz)

\* C3: on a Strict Array of either variant that was empty, the k-th append in
\* a row succeeds and leaves size = k for k <= capacity; the (capacity+1)-th
\* returns NO_SPACE and leaves size = capacity.
C3_AppendUntilFull ==
  (last.op = "append" /\ last.h # NULL /\ streak[last.var] >= 1) =>
    LET k == streak[last.var]
        c == heap[last.h].capacity
    IN /\ k <= c => (last.ret = "NO_ERROR" /\ heap[last.h].size = k)
       /\ k = c + 1 => (last.ret = "NO_SPACE" /\ heap[last.h].size = c)

\* C4: append with a null handle returns SEGFAULT without reading or writing
\* a member of the container, for either Strict Array variant.
C4_AppendNullHandle ==
  (last.op = "append" /\ last.h = NULL) =>
    (last.ret = "SEGFAULT" /\ ~last.derefNull)

\* C5: get with a null handle returns null without dereferencing the handle,
\* for each of the four variants.
C5_GetNullHandle ==
  (last.op = "get" /\ last.h = NULL) =>
    (last.ret = "ptr" /\ last.ptr = NullPtr /\ ~last.derefNull)

\* C6: a successful clone of a live Strict Array of either variant has the
\* source's size and capacity, and for every i < size get(clone, i) is
\* non-null and refers to an element equal to the one get(source, i) refers to.
C6_CloneEqualsSource ==
  (last.op = "clone" /\ IsStrict(variant) /\ res.ok = "NO_ERROR") =>
    LET s == last.h
        c == res.data
    IN /\ heap[c].size = heap[s].size
       /\ heap[c].capacity = heap[s].capacity
       /\ \A i \in 0..(heap[s].size - 1) :
            \A oc \in GetItem(variant, heap, c, i),
               os \in GetItem(variant, heap, s, i) :
              /\ oc.ret = "ptr" /\ oc.ptr # NullPtr
              /\ ElemAt(heap, oc.ptr) = ElemAt(heap, os.ptr)

\* C7 as claimed: every construct whose capacity argument is less than its
\* initial_count argument returns INVALID_SIZE and calls malloc not at all.
C7_RejectsCapBelowCount ==
  (last.op = "construct" /\ last.cap < last.count) =>
    (res.ok = "INVALID_SIZE" /\ last.mallocs = 0)

\* C7 as amended: every construct with initial_elements present whose capacity
\* argument is less than its initial_count argument returns INVALID_SIZE and
\* calls malloc not at all, for each of the four variants.
C7_RejectsCapBelowCountOfPresentData ==
  (last.op = "construct" /\ ~last.dataNull /\ last.cap < last.count) =>
    /\ last.ret = "Result"
    /\ res.ok = "INVALID_SIZE"
    /\ last.mallocs = 0

\* a construct with data present and capacity = initial_count - 1 was refused
C7_Witness ==
  /\ last.op = "construct" /\ ~last.dataNull
  /\ last.count = last.cap + 1
  /\ res.ok = "INVALID_SIZE"

\* C8: with initial_elements null, malloc succeeding and (generic variants)
\* type_size >= 1, construct succeeds whatever initial_count and capacity are:
\* the container has the capacity asked for, no cell of it written and, if
\* strict, size 0; on the int Plain Array get(capacity - 1) is non-null and
\* get(capacity) is null.
C8_NullDataMeansCountZero ==
  (/\ last.op = "construct" /\ last.dataNull /\ last.malloc # "null"
   /\ IsGeneric(variant) => last.tsz >= 1) =>
    /\ last.ret = "Result" /\ res.ok = "NO_ERROR" /\ ~last.stray
    /\ Live(heap, res.data)
    /\ LET c == heap[res.data]
       IN /\ c.capacity = last.cap
          /\ \A k \in 1..Len(c.data) : c.data[k] = U
          /\ IsStrict(variant) => c.size = 0
          /\ (variant = "Array_int" /\ last.cap >= 1) =>
               /\ \A o \in get_item_Array_int(heap, res.data, last.cap - 1) :
                    o.ptr # NullPtr
               /\ \A o \in get_item_Array_int(heap, res.data, last.cap) :
                    o.ptr = NullPtr

\* construct(null, MaxCap + 1, MaxCap) succeeded on the int Plain Array
C8_Witness ==
  /\ variant = "Array_int"
  /\ last.op = "construct" /\ last.dataNull
  /\ last.count = MaxCap + 1 /\ last.cap = MaxCap
  /\ res.ok = "NO_ERROR"
  /\ heap[res.data].capacity = MaxCap

PlainObjects == {a \in Addrs : Live(heap, a) /\ ~IsStrict(heap[a].kind)}

\* C9: on a live Plain Array of either variant, get(index) returns a non-null
\* pointer to slot index for every index < capacity, written or not, and null
\* for every index >= capacity.
C9_PlainGetBoundedByCapacity ==
  (last.op = "get" /\ ~IsStrict(variant) /\ last.h # NULL) =>
    /\ last.ret = "ptr"
    /\ last.index < heap[last.h].capacity =>
         /\ last.ptr # NullPtr
         /\ last.ptr = ElemPtr(last.h, last.index * heap[last.h].esz)
    /\ last.index >= heap[last.h].capacity => last.ptr = NullPtr

\* get returned a pointer to the last slot of a Plain Array, never written
C9_Witness ==
  /\ last.op = "get" /\ last.h \in PlainObjects
  /\ heap[last.h].capacity = MaxCap
  /\ last.index = MaxCap - 1
  /\ last.ptr # NullPtr
  /\ ElemAt(heap, last.ptr)[1] = U

\* C10: for each of the four variants, destroy through a non-null handle frees
\* that block once and nulls the handle variable; destroy through a null
\* handle, or with a null handle_ref, changes nothing; no block is ever freed
\* twice.
C10_DestroyFreesOnce ==
  [][/\ \A a \in Addrs : heap'[a].nfree <= 1
     /\ (last'.op = "destroy" /\ last'.h # NULL) =>
          /\ last'.h = h[last'.var]
          /\ heap[last'.h].state = "live"
          /\ heap'[last'.h].state = "freed"
          /\ \A a \in Addrs \ {last'.h} : heap'[a] = heap[a]
          /\ h' = [h EXCEPT ![last'.var] = NULL]
          /\ last'.frees = 1
     /\ (last'.op = "destroy" /\ last'.h = NULL) =>
          (heap' = heap /\ h' = h /\ last'.frees = 0)
     /\ last'.op = "destroy_null" =>
          (heap' = heap /\ h' = h /\ last'.frees = 0)]_vars

\* a handle variable was destroyed a second time, after its block was freed
C10_Witness ==
  /\ last.op = "destroy" /\ last.h = NULL
  /\ h[last.var] = NULL
  /\ \E a \in Addrs : heap[a].state = "freed" /\ heap[a].nfree = 1

\* C11: unwrapping a Result through a non-null Result pointer (get_data_p) or
\* by value (get_data) into a non-null slot: if the status is not NO_ERROR the
\* slot becomes null and the Result's message is returned; if it is NO_ERROR
\* the slot receives the payload pointer and a null message is returned.
C11_UnwrapContract ==
  [][(/\ last'.op \in {"get_data_p", "get_data"}
      /\ ~last'.fromNull /\ ~last'.toNull) =>
       IF res.ok # "NO_ERROR"
       THEN h'[last'.var] = NULL /\ last'.ret = res.error_msg
       ELSE h'[last'.var] = res.data /\ last'.ret = "NULL"]_vars

\* every header member the struct of the container at a has was assigned
HeaderInitialised(hp, a) ==
  /\ hp[a].capacity # U
  /\ IsStrict(hp[a].kind) => hp[a].size # U
  /\ IsGeneric(hp[a].kind) => (hp[a].ts_set /\ hp[a].type_size # U)

\* C12: a Result returned by construct or clone, in each of the four variants,
\* either has status NO_ERROR and a non-null payload that is a live container
\* with every header member assigned, or has another status, a message, and
\* leaves the heap as it was before the call; when malloc returned null the
\* status is HEAP_FAILURE.
C12_ResultShapes ==
  [][(last'.op \in {"construct", "clone"} /\ last'.ret = "Result") =>
       /\ \/ /\ res'.ok = "NO_ERROR"
             /\ res'.data # NULL /\ Live(heap', res'.data)
             /\ ~Live(heap, res'.data)
             /\ heap'[res'.data].kind = variant
             /\ HeaderInitialised(heap', res'.data)
          \/ /\ res'.ok \in {"SEGFAULT", "INVALID_SIZE", "HEAP_FAILURE"}
             /\ res'.error_msg # ""
             /\ heap' = heap
       /\ last'.malloc = "null" => res'.ok = "HEAP_FAILURE"]_vars

\* C13: for both Strict Array variants, remove_last on a live container of
\* size k leaves size max(k - 1, 0) and changes nothing else: not the capacity,
\* not a stored element, not another block, not a handle; with a null handle
\* it changes nothing; it reports no error in any case.
C13_RemoveLastFrame ==
  [][last'.op = "remove_last" =>
       /\ last'.ret = "void" /\ pc' = "run"
       /\ ~last'.derefNull /\ ~last'.stray
       /\ h' = h /\ res' = res
       /\ last'.h = h[last'.var]
       /\ IF last'.h = NULL THEN heap' = heap
          ELSE LET a == last'.h
                   k == heap[a].size
               IN /\ Live(heap, a)
                  /\ heap' = [heap EXCEPT
                                ![a].size = IF k >= 1 THEN k - 1 ELSE 0]]_vars

\* remove_last took a full Strict Array to size capacity - 1: the cell of the
\* removed element still holds what was appended there
C13_Witness ==
  /\ last.op = "remove_last" /\ last.h \in StrictObjects
  /\ heap[last.h].capacity = MaxCap
  /\ heap[last.h].size = MaxCap - 1
  /\ heap[last.h].data[Len(heap[last.h].data)] # U

\* n appends in a row to the container at a all return NO_ERROR, whatever
\* outcome each of them has
RECURSIVE AppendsSucceed(_, _, _)
AppendsSucceed(hp, a, n) ==
  \/ n = 0
  \/ \A v \in AppendVals :
       \A o \in PushBack(variant, hp, a, v) :
         o.ret = "NO_ERROR" /\ AppendsSucceed(o.heap, a, n - 1)

\* C14: for both Strict Array variants, clear on a live container of any size
\* sets size to 0 and changes nothing else (capacity, the block, every stored
\* cell, the other blocks, the handles), so that capacity appends in a row
\* succeed afterwards; with a null handle it changes nothing.
C14_ClearFrame ==
  [][last'.op = "clear" =>
       /\ last'.ret = "void" /\ pc' = "run"
       /\ ~last'.derefNull /\ ~last'.stray
       /\ h' = h /\ res' = res
       /\ last'.h = h[last'.var]
       /\ IF last'.h = NULL THEN heap' = heap
          ELSE LET a == last'.h
               IN /\ Live(heap, a)
                  /\ heap' = [heap EXCEPT ![a].size = 0]
                  /\ AppendsSucceed(heap', a, heap'[a].capacity)]_vars

\* C15: for both Plain Array variants, the clone of a live container, malloc
\* succeeding, is a new live container with the source's capacity (generic
\* variant: and type_size) such that for every i < capacity get(clone, i) and
\* get(source, i) are non-null and refer to equal values.
C15_PlainCloneEqualsSource ==
  (/\ last.op = "clone" /\ ~IsStrict(variant)
   /\ last.h # NULL /\ last.malloc = "ok") =>
    /\ last.ret = "Result" /\ res.ok = "NO_ERROR" /\ ~last.stray
    /\ Live(heap, res.data) /\ Live(heap, last.h) /\ res.data # last.h
    /\ LET s == last.h
           c == res.data
       IN /\ heap[c].kind = heap[s].kind
          /\ heap[c].capacity = heap[s].capacity
          /\ IsGeneric(variant) => heap[c].type_size = heap[s].type_size
          /\ \A i \in 0..(heap[s].capacity - 1) :
               \A oc \in GetItem(variant, heap, c, i),
                  os \in GetItem(variant, heap, s, i) :
                 /\ oc.ret = "ptr" /\ oc.ptr # NullPtr /\ oc.ptr.obj = c
                 /\ os.ret = "ptr" /\ os.ptr # NullPtr /\ os.ptr.obj = s
                 /\ ElemAt(heap, oc.ptr) # <<Wild>>
                 /\ ElemAt(heap, oc.ptr) = ElemAt(heap, os.ptr)

\* a generic Plain Array of capacity MaxCap, its first slot written and its
\* last slot never written, was cloned
C15_Witness ==
  /\ variant = "Array"
  /\ last.op = "clone" /\ res.ok = "NO_ERROR"
  /\ heap[last.h].capacity = MaxCap
  /\ heap[res.data].data[1] # U
  /\ heap[res.data].data[Len(heap[res.data].data)] = U

\* element number i (from 0) of the caller's initial array, as ElemAt reads it
InitElem(k, i, tsz) == IF IsGeneric(k) THEN Elem(i + 1, tsz) ELSE <<i + 1>>

\* C16: for both Strict Array variants, a successful construct with
\* initial_elements present and n <= cap yields a live container with
\* size = n and capacity = cap in which get(i) refers to a value equal to
\* initial_elements[i] for every i < n.
C16_ConstructInitialState ==
  (/\ last.op = "construct" /\ IsStrict(variant) /\ ~last.dataNull
   /\ last.count <= last.cap /\ res.ok = "NO_ERROR") =>
    /\ Live(heap, res.data) /\ ~last.stray
    /\ LET c == res.data
       IN /\ heap[c].size = last.count
          /\ heap[c].capacity = last.cap
          /\ \A i \in 0..(last.count - 1) :
               \A o \in GetItem(variant, heap, c, i) :
                 /\ o.ret = "ptr" /\ o.ptr # NullPtr
                 /\ ElemAt(heap, o.ptr) = InitElem(variant, i, last.tsz)

\* a generic Strict Array was constructed from one element with room for
\* MaxCap: its last slot is unwritten
C16_Witness ==
  /\ variant = "StrictArray"
  /\ last.op = "construct" /\ ~last.dataNull /\ res.ok = "NO_ERROR"
  /\ last.count = MaxCap - 1 /\ last.count >= 1 /\ last.cap = MaxCap
  /\ heap[res.data].size = MaxCap - 1
  /\ heap[res.data].data[Len(heap[res.data].data)] = U

\* the caller's element v as ElemAt reads it from a container of kind k
\* constructed for elements of esz bytes
ValueElem(k, v, esz) == IF IsGeneric(k) THEN Elem(v, esz) ELSE <<v>>

\* C17: for both Strict Array variants, an append(v) that returns NO_ERROR on
\* a container of size k found k < capacity, leaves size = k + 1 and the
\* capacity unchanged, get(k) refers to a value equal to v, and get(i) refers
\* to the same value as before for every i < k (so an append after a
\* remove_last puts its value in the slot of the removed element).
C17_AppendFrame ==
  [][(last'.op = "append" /\ last'.ret = "NO_ERROR" /\ last'.h # NULL) =>
       LET a == last'.h
           k == heap[a].size
       IN /\ Live(heap, a) /\ a = h[last'.var]
          /\ k < heap[a].capacity
          /\ heap'[a].size = k + 1
          /\ heap'[a].capacity = heap[a].capacity
          /\ \A o \in GetItem(variant, heap', a, k) :
               /\ o.ret = "ptr" /\ o.ptr # NullPtr
               /\ ElemAt(heap', o.ptr)
                    = ValueElem(variant, last'.value, heap[a].esz)
          /\ \A i \in 0..(k - 1) :
               \A o1 \in GetItem(variant, heap, a, i),
                  o2 \in GetItem(variant, heap', a, i) :
                 /\ o2.ptr = o1.ptr
                 /\ ElemAt(heap', o2.ptr) = ElemAt(heap, o1.ptr)
          /\ \A b \in Addrs \ {a} : heap'[b] = heap[b]]_vars

\* the int whose object representation is the SizeofInt bytes bs: U if no
\* byte was ever written, Wild if the bytes are those of no one int
IntOf(bs) ==
  IF \A j \in 1..Len(bs) : bs[j] = U THEN U
  ELSE LET v == (bs[1] - 1) \div 10
       IN IF bs = Elem(v, Len(bs)) THEN v ELSE Wild

\* the int Strict Array heap that holds, block by block, what the generic
\* Strict Array heap gh holds when its elements are ints
IntImage(gh) ==
  [a \in Addrs |->
     IF gh[a].state # "live" THEN gh[a]
     ELSE [gh[a] EXCEPT
             !.kind = "StrictArray_int", !.type_size = 0, !.ts_set = FALSE,
             !.esz = 1,
             !.bytes = SizeT(HeaderSize("StrictArray_int")
                             + SizeT(SizeofInt * gh[a].capacity)),
             !.data = [i \in 1..(Len(gh[a].data) \div SizeofInt) |->
                         IntOf(SubSeq(gh[a].data, (i - 1) * SizeofInt + 1,
                                      i * SizeofInt))]]]

\* the outcomes of the int Strict Array function called with the arguments
\* of call c on heap ih
IntCall(c, ih) ==
  LET p == IF c.malloc = "null" THEN NULL ELSE Fresh(ih)
  IN CASE c.op = "construct" ->
            new_StrictArray_int(ih, p,
              InitData("StrictArray_int", c.dataNull, c.count, 0),
              c.count, c.cap)
       [] c.op = "clone" -> from_StrictArray_int(ih, p, c.h)
       [] c.op = "destroy" -> free_StrictArray_int(ih, FALSE, c.h)
       [] c.op = "destroy_null" -> free_StrictArray_int(ih, TRUE, c.h)
       [] c.op = "append" -> push_back_StrictArray_int(ih, c.h, c.value)
       [] c.op = "remove_last" -> pop_back_StrictArray_int(ih, c.h)
       [] c.op = "clear" -> clear_StrictArray_int(ih, c.h)
       [] c.op = "get" -> get_item_StrictArray_int(ih, c.h, c.index)

\* generic heap gh and int heap ih are in corresponding states: the same
\* blocks are live, with equal size and capacity, and get(i) on the generic
\* container refers to the bytes of int element i for every i < size
Corresponds(gh, ih) ==
  \A a \in Addrs :
    /\ gh[a].state = ih[a].state
    /\ gh[a].state = "live" =>
         /\ gh[a].size = ih[a].size
         /\ gh[a].capacity = ih[a].capacity
         /\ \A i \in 0..(ih[a].size - 1) :
              \A og \in get_item(gh, a, i) :
                IntOf(ElemAt(gh, og.ptr)) = ih[a].data[i + 1]

\* C18: a generic Strict Array of elements of sizeof(int) bytes and an int
\* Strict Array that are in corresponding states and receive the same call
\* (construct, clone, destroy, append, remove_last, clear or get, null handles
\* and out-of-range indices included) return equal statuses, agree on whether
\* get returned null, and are in corresponding states afterwards.
C18_GenericMatchesInt ==
  [][(/\ variant = "StrictArray"
      /\ last'.op \in {"construct", "clone", "destroy", "destroy_null",
                       "append", "remove_last", "clear", "get"}
      /\ last'.op = "construct" => last'.tsz = SizeofInt
      /\ \A a \in Addrs : Live(heap, a) => heap[a].esz = SizeofInt) =>
       \A oi \in IntCall(last', IntImage(heap)) :
         /\ last'.ret = oi.ret
         /\ last'.ret = "Result" =>
              /\ res'.ok = oi.res.ok
              /\ res'.ok = "NO_ERROR" => res'.data = oi.res.data
         /\ last'.ret = "ptr" => (last'.ptr = NullPtr <=> oi.ptr = NullPtr)
         /\ last'.op \in {"destroy", "destroy_null"} =>
              h'[last'.var] = oi.slot
         /\ Corresponds(heap', oi.heap)]_vars

\* cells of data[] per element of the container at a
ElemCells(hp, a) == IF IsGeneric(hp[a].kind) THEN hp[a].esz ELSE 1

\* C19: for both Strict Array variants, a successful clone has a buffer of
\* source.capacity slots, its memcpy copies exactly source.size elements, the
\* clone's slots below size hold the source's elements and its slots from
\* size to capacity are unwritten.
C19_CloneCopiesSizeElements ==
  (last.op = "clone" /\ IsStrict(variant) /\ res.ok = "NO_ERROR") =>
    LET s == last.h
        c == res.data
        live == heap[s].size * ElemCells(heap, s)
    IN /\ Len(heap[c].data) = heap[s].capacity * ElemCells(heap, s)
       /\ last.copied = live
       /\ \A k \in 1..Len(heap[c].data) :
            IF k <= live THEN heap[c].data[k] = heap[s].data[k]
            ELSE heap[c].data[k] = U

\* C20: in each of the four variants, once destroy has nulled a handle
\* variable, every later call through that variable finds a null handle,
\* dereferences nothing and changes neither the heap nor a handle: append
\* returns SEGFAULT, get returns null, clone returns a Result with status
\* SEGFAULT without allocating, and remove_last, clear and destroy return
\* having done nothing.
C20_DestroyIsTerminal ==
  [][(/\ last'.op \in {"append", "get", "clone", "remove_last", "clear",
                        "destroy"}
      /\ last'.var \in destroyed) =>
       /\ last'.h = NULL /\ h[last'.var] = NULL
       /\ heap' = heap /\ h' = h /\ pc' = "run"
       /\ ~last'.derefNull /\ ~last'.stray
       /\ last'.mallocs = 0 /\ last'.frees = 0
       /\ last'.op = "append" => last'.ret = "SEGFAULT"
       /\ last'.op = "get" => (last'.ret = "ptr" /\ last'.ptr = NullPtr)
       /\ last'.op = "clone" =>
            (last'.ret = "Result" /\ res'.ok = "SEGFAULT")
       /\ last'.op \in {"remove_last", "clear", "destroy"} =>
            last'.ret = "void"]_vars

\* C21: a successful clone of a generic Strict Array has its type_size member
\* assigned and equal to the source's, so that get(i) on the clone and on the
\* source return the same offset (i * type_size) for every i < size, and an
\* append of the same element changes the clone's and the source's size and
\* data in the same way.
C21_CloneKeepsTypeSize ==
  (/\ variant = "StrictArray" /\ last.op = "clone"
   /\ last.ret = "Result" /\ res.ok = "NO_ERROR") =>
    LET s == last.h
        c == res.data
    IN /\ heap[c].ts_set
       /\ heap[c].type_size = heap[s].type_size
       /\ \A i \in 0..(heap[s].size - 1) :
            \A oc \in get_item(heap, c, i), os \in get_item(heap, s, i) :
              oc.ret = "ptr" /\ os.ret = "ptr" /\ oc.ptr.off = os.ptr.off
       /\ \A v \in AppendVals :
            \A oc \in PushBack(variant, heap, c, v),
               os \in PushBack(variant, heap, s, v) :
              /\ oc.ret = os.ret
              /\ oc.heap[c].size = os.heap[s].size
              /\ oc.heap[c].data = os.heap[s].data

\* ------------------------------------------- size_t wrap-around (generic)
\* capacity and type_size arguments up to the largest size_t: products
\* capacity * type_size below, at and above 2^SizeBits, and sums
\* sizeof(struct) + capacity * type_size that wrap although the product
\* does not
WideCaps == {MaxCap, 2 ^ (SizeBits - 1), 2 ^ SizeBits - 1}
WideTypeSizes == {1, MaxTypeSize, 2 ^ (SizeBits - 1)}

InitWrap == Init /\ IsGeneric(variant)

\* r = new_Array / new_StrictArray(data, size, cap, type_size) with cap and
\* type_size any size_t, when the caller holds no container
ConstructWide ==
  /\ pc = "run" /\ res = NoResult /\ Fresh(heap) # NULL
  /\ \A x \in HVars : h[x] \notin Addrs
  /\ dst' = "a"
  /\ \E dataNull \in BOOLEAN, size \in Counts, cap \in WideCaps,
        tsz \in WideTypeSizes, p \in {NULL, Fresh(heap)} :
       \E o \in New(variant, heap, p,
                     InitData(variant, dataNull, size, tsz), size, cap, tsz) :
         /\ heap' = o.heap
         /\ res' = o.res
         /\ pc' = After(o)
         /\ last' = [Call("construct", o) EXCEPT
                       !.dataNull = dataNull, !.count = size,
                       !.cap = cap, !.tsz = tsz,
                       !.malloc = Answer(o, p)]
  /\ UNCHANGED <<variant, h, streak, destroyed>>

NextWrap ==
  \/ ConstructWide
  \/ UnwrapP
  \/ Destroy
  \/ PushBackCall
  \/ Get

SpecWrap == InitWrap /\ [][NextWrap]_vars

\* C22: for the generic variants, size_t arithmetic being modulo 2^SizeBits,
\* a successful construct with arguments capacity and type_size has allocated
\* sizeof(struct) + capacity * type_size bytes, the product and the sum taken
\* in the integers, and written nothing outside the block; every non-null
\* pointer get returns on a constructed container refers to type_size bytes
\* inside its payload; every successful append wrote inside the payload.
C22_PayloadHoldsCapacity ==
  /\ (/\ last.op = "construct" /\ IsGeneric(variant)
      /\ last.ret = "Result" /\ res.ok = "NO_ERROR") =>
       /\ ~last.stray
       /\ heap[res.data].bytes
            >= HeaderSize(variant) + last.cap * last.tsz
       /\ Len(heap[res.data].data) >= last.cap * last.tsz
  /\ (/\ last.op = "get" /\ IsGeneric(variant) /\ Live(heap, last.h)
      /\ heap[last.h].ts_set
      /\ last.ret = "ptr" /\ last.ptr # NullPtr) =>
       /\ last.ptr.obj = last.h
       /\ last.ptr.off + heap[last.h].type_size <= Len(heap[last.h].data)
  /\ (/\ last.op = "append" /\ variant = "StrictArray" /\ Live(heap, last.h)
      /\ heap[last.h].ts_set /\ last.ret = "NO_ERROR") =>
       ~last.stray

====
